---- MODULE Spec2Model ----
(***************************************************************************)
(* effolkronium::basic_random_static<Engine> (src/source/random.hpp).      *)
(*                                                                         *)
(* The static facade get(from, to) over one shared engine: the type        *)
(* predicates that gate the four overloads, the range normalisation of    *)
(* each overload, the static data member `engine` and its dynamic         *)
(* initialisation, and two threads calling get at once.                   *)
(*                                                                         *)
(* Types are strings.  Integer widths are scaled down from the usual      *)
(* 8/16/32/64 bits (CharBits and the widths derived from it) so that      *)
(* every value stays inside the model checker's integers; the order of    *)
(* the widths and of the floating-point precisions is the real one.       *)
(* Floating-point values are the integers a format can represent, with    *)
(* Inf, NInf and NaN encoded as numbers outside every finite range.       *)
(***************************************************************************)
EXTENDS Integers, FiniteSets, Sequences, TLC

\* Width of the byte types, in bits (scaled down).
CharBits == 4
\* Length of the engine's cycle of states (scaled down).
EngPeriod == 4

ShortBits == CharBits + 2
IntBits == ShortBits + 2
LongBits == IntBits + 2
LongLongBits == LongBits

--------------------------------------------------------------------------
(* Types and the type predicates                                          *)

IsUniformInt(T) ==
    T \in {"short", "int", "long", "long long", "unsigned short",
           "unsigned int", "unsigned long", "unsigned long long"}

IsUniformReal(T) == T \in {"float", "double", "long double"}

IsByteOrChar(T) == T \in {"signed char", "unsigned char", "char"}
IsByte(T) == T \in {"signed char", "unsigned char"}

IsSupportedNumber(T) == IsByte(T) \/ IsUniformReal(T) \/ IsUniformInt(T)

\* The types a bound of a call is given in: the supported numbers, three
\* arithmetic types outside the supported set and one non-numeric type.
SupportedTypes ==
    {"short", "int", "long", "long long", "unsigned short", "unsigned int",
     "unsigned long", "unsigned long long", "float", "double", "long double",
     "signed char", "unsigned char"}
OtherArithmetic == {"bool", "char", "wchar_t"}
ArgTypes == SupportedTypes \cup OtherArithmetic \cup {"std::string"}

IsArithmetic(T) == T \in SupportedTypes \cup OtherArithmetic

\* std::is_signed / std::is_unsigned (char and wchar_t as on x86-64 Linux).
IsSigned(T) ==
    T \in {"signed char", "short", "int", "long", "long long",
           "float", "double", "long double", "char", "wchar_t"}
IsUnsigned(T) ==
    T \in {"unsigned char", "unsigned short", "unsigned int",
           "unsigned long", "unsigned long long", "bool"}

Bits(T) ==
    CASE T \in {"signed char", "unsigned char", "char"} -> CharBits
      [] T \in {"short", "unsigned short"} -> ShortBits
      [] T \in {"int", "unsigned int", "wchar_t"} -> IntBits
      [] T \in {"long", "unsigned long"} -> LongBits
      [] T \in {"long long", "unsigned long long"} -> LongLongBits
      [] T = "bool" -> 1
      [] OTHER -> 0

\* Mantissa digits and largest exponent of the floating-point formats:
\* float is narrower than int, double narrower than long, long double holds
\* every long long; every integer value is below the largest finite float.
Digits(T) ==
    CASE T = "float" -> IntBits - 2
      [] T = "double" -> LongBits - 2
      [] OTHER -> LongLongBits
MaxExp(T) ==
    CASE T = "float" -> LongLongBits
      [] T = "double" -> LongLongBits + 2
      [] OTHER -> LongLongBits + 4
FMax(T) == (2^Digits(T) - 1) * 2^MaxExp(T)

Inf == FMax("long double") + 1
NInf == -Inf
NaN == Inf + 1

IsFinite(x) == x # NaN /\ x # Inf /\ x # NInf

Lowest(T) ==
    IF IsUniformReal(T) THEN -FMax(T)
    ELSE IF IsSigned(T) THEN -(2^(Bits(T) - 1)) ELSE 0
Highest(T) ==
    IF IsUniformReal(T) THEN FMax(T)
    ELSE IF IsSigned(T) THEN 2^(Bits(T) - 1) - 1 ELSE 2^Bits(T) - 1

Abs(x) == IF x < 0 THEN -x ELSE x

\* The exponent at which a magnitude fits the mantissa of format T.
ExpOf(T, m) ==
    CHOOSE e \in 0..(MaxExp("long double") + Digits("long double") + 1) :
        /\ m \div 2^e < 2^Digits(T)
        /\ \A d \in 0..(e - 1) : m \div 2^d >= 2^Digits(T)

\* Round to nearest, ties to even; beyond the largest finite value: infinity.
RoundMag(T, m) ==
    LET e == ExpOf(T, m)
        q == m \div 2^e
        r == m % 2^e
        up == 2 * r > 2^e \/ (2 * r = 2^e /\ q % 2 = 1)
    IN  (IF up THEN q + 1 ELSE q) * 2^e
RoundReal(T, x) ==
    IF ~IsFinite(x) THEN x
    ELSE LET m == RoundMag(T, Abs(x))
         IN  IF m > FMax(T) THEN (IF x < 0 THEN NInf ELSE Inf)
             ELSE IF x < 0 THEN -m ELSE m

--------------------------------------------------------------------------
(* Conversions and std::common_type                                       *)

\* Conversion to an integer type of Bits(T) bits: the value modulo 2^Bits(T).
Wrap(T, v) ==
    LET n == 2^Bits(T)
        r == v % n
    IN  IF IsSigned(T) /\ r > Highest(T) THEN r - n ELSE r

\* Some values of an integer type T, for the results a conversion or a
\* distribution may produce when its behaviour is undefined.
AnyValue(T) == {Lowest(T), Highest(T)}

\* static_cast<T>(v) of a value v of type S, and the implicit conversion of
\* an argument to a parameter of type T: the set of possible results.
\* Floating to integer is undefined when the value is out of range.
Convert(T, S, v) ==
    IF IsUniformReal(T) THEN {RoundReal(T, v)}
    ELSE IF IsUniformReal(S)
         THEN IF IsFinite(v) /\ Lowest(T) <= v /\ v <= Highest(T)
              THEN {v} ELSE AnyValue(T)
         ELSE {Wrap(T, v)}

IntRank(T) ==
    CASE T = "bool" -> 0
      [] T \in {"signed char", "unsigned char", "char"} -> 1
      [] T \in {"short", "unsigned short"} -> 2
      [] T \in {"int", "unsigned int", "wchar_t"} -> 3
      [] T \in {"long", "unsigned long"} -> 4
      [] OTHER -> 5

UnsignedOfRank(r) ==
    CASE r = 3 -> "unsigned int" [] r = 4 -> "unsigned long"
      [] OTHER -> "unsigned long long"

\* Integral promotion: a type below int becomes int, which holds its values.
Promote(T) ==
    IF IntRank(T) < 3 \/ T = "wchar_t"
    THEN (IF Highest(T) <= Highest("int") THEN "int" ELSE "unsigned int")
    ELSE T

CommonTypeFirst(A, B) == A

\* std::common_type<A, B>::type for arithmetic A, B: A itself when A = B,
\* else the type of the usual arithmetic conversions.
CommonType(A, B) ==
    IF A = B THEN A
    ELSE IF "long double" \in {A, B} THEN "long double"
    ELSE IF "double" \in {A, B} THEN "double"
    ELSE IF "float" \in {A, B} THEN "float"
    ELSE LET PA == Promote(A)
             PB == Promote(B)
             S == IF IsSigned(PA) THEN PA ELSE PB
             U == IF IsSigned(PA) THEN PB ELSE PA
         IN  IF PA = PB THEN PA
             ELSE IF IsSigned(PA) = IsSigned(PB)
                  THEN (IF IntRank(PA) >= IntRank(PB) THEN PA ELSE PB)
             ELSE IF IntRank(U) >= IntRank(S) THEN U
             ELSE IF Highest(U) <= Highest(S) THEN S
             ELSE UnsignedOfRank(IntRank(S))

HasCommonType(A, B) == A = B \/ (IsArithmetic(A) /\ IsArithmetic(B))

\* An argument of type S can initialise a parameter of type T.
Convertible(T, S) == S = T \/ (IsArithmetic(S) /\ IsArithmetic(T))

--------------------------------------------------------------------------
(* The engine and the two distributions                                   *)

EngineStates == 0..(EngPeriod - 1)

\* One call of the engine: the number it returns and its next state.
Draw(e) == e
Advance(e) == (e + 1) % EngPeriod

Min2(x, y) == IF x < y THEN x ELSE y
Max2(x, y) == IF x < y THEN y ELSE x

\* std::uniform_int_distribution<T>{a, b}(engine): the outcomes
\* [value, engine'].  a <= b is its precondition; with a = b one standard
\* library returns a without calling the engine (skip), another calls it.
UniformIntDistribution(T, a, b, e, skip) ==
    IF a > b
    THEN {[dist |-> "uniform_int", D |-> T, lo |-> a, hi |-> b,
           value |-> v, engine |-> n] :
              v \in AnyValue(T) \cup {a, b}, n \in {e, Advance(e)}}
    ELSE IF a = b /\ skip
    THEN {[dist |-> "uniform_int", D |-> T, lo |-> a, hi |-> b,
           value |-> a, engine |-> e]}
    ELSE {[dist |-> "uniform_int", D |-> T, lo |-> a, hi |-> b,
           value |-> a + ((b - a + 1) * Draw(e)) \div EngPeriod,
           engine |-> Advance(e)]}

\* Precondition of std::uniform_real_distribution<T>{a, b}:
\* a <= b and b - a <= numeric_limits<T>::max().
RealPre(T, a, b) ==
    /\ IsFinite(a) /\ IsFinite(b)
    /\ a <= b
    /\ b - a <= FMax(T)

\* Floating-point arithmetic of format T on the encoded values.
RSub(T, x, y) ==
    IF x = NaN \/ y = NaN THEN NaN
    ELSE IF ~IsFinite(x) THEN (IF x = y THEN NaN ELSE x)
    ELSE IF ~IsFinite(y) THEN -y
    ELSE RoundReal(T, x - y)
RAdd(T, x, y) ==
    IF x = NaN \/ y = NaN THEN NaN
    ELSE IF ~IsFinite(x) THEN (IF x = -y THEN NaN ELSE x)
    ELSE IF ~IsFinite(y) THEN y
    ELSE RoundReal(T, x + y)
\* x * u for the fraction u = k / EngPeriod of [0, 1).
RMulFraction(T, x, k) ==
    IF x = NaN THEN NaN
    ELSE IF ~IsFinite(x) THEN (IF k = 0 THEN NaN ELSE x)
    ELSE RoundReal(T, (x * k) \div EngPeriod)

\* std::uniform_real_distribution<T>{a, b}(engine): (b - a) * u + a with
\* u in [0, 1) drawn from the engine.  Outside the precondition the same
\* arithmetic runs, and overflows or meets a NaN.
UniformRealDistribution(T, a, b, e) ==
    {[dist |-> "uniform_real", D |-> T, lo |-> a, hi |-> b,
      value |-> RAdd(T, RMulFraction(T, RSub(T, b, a), Draw(e)), a),
      engine |-> Advance(e)]}

\* operator< of the bounds: false whenever a floating-point bound is NaN.
Less(T, x, y) ==
    IF IsUniformReal(T) THEN x # NaN /\ y # NaN /\ x < y ELSE x < y

--------------------------------------------------------------------------
(* The four overloads of get                                              *)

Tagged(name, o) ==
    [overload |-> name, dist |-> o.dist, D |-> o.D, lo |-> o.lo,
     hi |-> o.hi, value |-> o.value, engine |-> o.engine]

\* Variants of the overloads with one slip each.
GetIntNoSwap(A, from, to, e, skip) ==
    {Tagged("int", o) : o \in UniformIntDistribution(A, from, to, e, skip)}
GetIntDefaultUpper(A, from, to, e, skip) ==
    {Tagged("int", o) :
        o \in UniformIntDistribution(A, Min2(from, to), Highest(A), e, skip)}
GetIntEngineCopy(A, from, to, e, skip) ==
    {[Tagged("int", o) EXCEPT !.engine = e] :
        o \in UniformIntDistribution(A, Min2(from, to), Max2(from, to), e, skip)}
GetRealNoSwap(A, from, to, e, skip) ==
    {Tagged("real", o) : o \in UniformRealDistribution(A, from, to, e)}
ShortTUnsigned(A) == "unsigned short"
CommonGateMixed(Key, A, B) ==
    /\ Key = "common"
    /\ IsSupportedNumber(A)
    /\ IsSupportedNumber(B)
    /\ IsSigned(A) # IsSigned(B)

\* get(A from, A to) for is_uniform_int<A>.
GetInt(A, from, to, e, skip) ==
    IF from < to
    THEN {Tagged("int", o) : o \in UniformIntDistribution(A, from, to, e, skip)}
    ELSE {Tagged("int", o) : o \in UniformIntDistribution(A, to, from, e, skip)}

\* get(A from, A to) for is_uniform_real<A>.
GetReal(A, from, to, e, skip) ==
    IF Less(A, from, to)
    THEN {Tagged("real", o) : o \in UniformRealDistribution(A, from, to, e)}
    ELSE {Tagged("real", o) : o \in UniformRealDistribution(A, to, from, e)}

\* short_t of the byte overload.
ShortT(A) == IF IsSigned(A) THEN "short" ELSE "unsigned short"

\* get(A from, A to) for is_byte<A>: through short_t and back.
GetByte(A, from, to, e, skip) ==
    UNION {UNION {{[Tagged("byte", o) EXCEPT !.value = v] :
                      v \in Convert(A, ShortT(A), o.value)} :
                  o \in GetInt(ShortT(A), f, t, e, skip)} :
           f \in Convert(ShortT(A), A, from), t \in Convert(ShortT(A), A, to)}

\* get(x, y) with both arguments of type C: the overload the predicates pick.
GetSame(C, from, to, e, skip) ==
    IF IsUniformInt(C) THEN GetInt(C, from, to, e, skip)
    ELSE IF IsUniformReal(C) THEN GetReal(C, from, to, e, skip)
    ELSE GetByte(C, from, to, e, skip)

\* The enable_if condition of the overload keyed by `common`.
CommonGate(Key, A, B) ==
    /\ Key = "common"
    /\ IsSupportedNumber(A)
    /\ IsSupportedNumber(B)
    /\ IsSigned(A) # IsUnsigned(B)

\* The template argument A of the three same-type overloads in a call
\* get(x, y) (key = "") or get<key>(x, y), x of type A and y of type B:
\* deduced from both arguments, or named and the arguments converted to it;
\* "" when there is none.
SameTypeParam(key, A, B) ==
    IF key = "" THEN (IF A = B THEN A ELSE "")
    ELSE IF Convertible(key, A) /\ Convertible(key, B) THEN key ELSE ""

\* The overloads a call can use.  Key of the keyed overload cannot be
\* deduced, so a call without a template argument never reaches it.
Viable(key, A, B) ==
    {o \in {"int", "real", "byte", "common"} :
        \/ o = "int" /\ IsUniformInt(SameTypeParam(key, A, B))
        \/ o = "real" /\ IsUniformReal(SameTypeParam(key, A, B))
        \/ o = "byte" /\ IsByte(SameTypeParam(key, A, B))
        \/ o = "common" /\ key # "" /\ HasCommonType(A, B)
                        /\ CommonGate(key, A, B)}

--------------------------------------------------------------------------
(* State                                                                  *)

VARIABLES
    engine,      \* state of basic_random_static<Engine>::engine
    skipsEqual,  \* the build's library returns a from {a, a} without a draw
    constructed, \* the dynamic initialiser of engine has run
    phase,       \* "static_init" or "main"
    lastCall,    \* the last call of get: its arguments, overload and result
    pc,          \* per thread: "idle" or "inside" (between read and write)
    snapshot,    \* per thread: the engine state it read
    ret          \* per thread: the value its last call returned

vars == <<engine, skipsEqual, constructed, phase, lastCall, pc, snapshot, ret>>

Threads == {1, 2}

NoCall ==
    [status |-> "none", key |-> "", A |-> "", B |-> "", from |-> 0, to |-> 0,
     overload |-> "", C |-> "", cfrom |-> 0, cto |-> 0, dist |-> "", D |-> "",
     lo |-> 0, hi |-> 0, value |-> 0, before |-> 0, constructed |-> TRUE]

Call(key, A, B, from, to, C, f, t, o) ==
    [status |-> "ok", key |-> key, A |-> A, B |-> B, from |-> from, to |-> to,
     overload |-> o.overload, C |-> C, cfrom |-> f, cto |-> t,
     dist |-> o.dist, D |-> o.D, lo |-> o.lo, hi |-> o.hi, value |-> o.value,
     before |-> engine, constructed |-> constructed]

\* The template arguments a call names: none, the key, or a number type.
Keys == {"", "common", "int", "double"}

\* The bounds the calls are made with.
Sample(T) ==
    IF IsUniformReal(T) THEN {Lowest(T), 0, 1, Highest(T), Inf, NaN}
    ELSE IF T = "std::string" THEN {0}
    ELSE IF T = "bool" THEN {0, 1}
    ELSE IF IsSigned(T) THEN {Lowest(T), -1, 1, Highest(T)}
    ELSE {0, 1, Highest(T) - 1, Highest(T)}
KeyedSample(T) ==
    IF T = "std::string" THEN {0}
    ELSE IF IsUniformReal(T) THEN {0, Highest(T)}
    ELSE {Lowest(T), Highest(T)}
Bounds(key, T) == IF key = "" THEN Sample(T) ELSE KeyedSample(T)

Init ==
    /\ engine \in EngineStates
    /\ skipsEqual \in BOOLEAN
    /\ constructed = TRUE
    /\ phase = "main"
    /\ lastCall = NoCall
    /\ pc = [t \in Threads |-> "idle"]
    /\ snapshot = [t \in Threads |-> 0]
    /\ ret = [t \in Threads |-> 0]

\* A call resolved to one of the three same-type overloads.
SameTypeCall(name) ==
    /\ \E key \in Keys \ {"common"}, A \in ArgTypes, B \in ArgTypes :
        /\ Viable(key, A, B) = {name}
        /\ \E from \in Bounds(key, A), to \in Bounds(key, B) :
             LET P == SameTypeParam(key, A, B) IN
             \E f \in Convert(P, A, from), t \in Convert(P, B, to) :
             \E o \in GetSame(P, f, t, engine, skipsEqual) :
                /\ lastCall' = Call(key, A, B, from, to, P, f, t, o)
                /\ engine' = o.engine
        /\ UNCHANGED <<skipsEqual, constructed, phase, pc, snapshot, ret>>

GetIntCall ==
    /\ phase = "main"
    /\ lastCall.status = "none"
    /\ SameTypeCall("int")
GetRealCall ==
    /\ phase = "main"
    /\ lastCall.status = "none"
    /\ SameTypeCall("real")
GetByteCall ==
    /\ phase = "main"
    /\ lastCall.status = "none"
    /\ SameTypeCall("byte")

\* get<common>(A from, B to): both bounds cast to C, then get(C, C).
GetCommonCall ==
    /\ phase = "main"
    /\ lastCall.status = "none"
    /\ \E A \in ArgTypes, B \in ArgTypes :
        /\ Viable("common", A, B) = {"common"}
        /\ \E from \in KeyedSample(A), to \in KeyedSample(B) :
             LET C == CommonType(A, B) IN
             \E f \in Convert(C, A, from), t \in Convert(C, B, to) :
             \E o \in GetSame(C, f, t, engine, skipsEqual) :
                /\ lastCall' = Call("common", A, B, from, to, C, f, t, o)
                /\ engine' = o.engine
        /\ UNCHANGED <<skipsEqual, constructed, phase, pc, snapshot, ret>>

\* A call no overload accepts: the program does not build, nothing runs.
RejectedCall ==
    /\ lastCall.status = "none"
    /\ \E key \in Keys, A \in ArgTypes, B \in ArgTypes :
        /\ Viable(key, A, B) = {}
        /\ lastCall' = [NoCall EXCEPT !.status = "rejected", !.key = key,
                                      !.A = A, !.B = B, !.before = engine]
        /\ UNCHANGED <<engine, skipsEqual, constructed, phase, pc, snapshot, ret>>

\* The caller has used the result: a range request ends with its call.
Consume ==
    /\ lastCall.status # "none"
    /\ lastCall' = NoCall
    /\ UNCHANGED <<engine, skipsEqual, constructed, phase, pc, snapshot, ret>>

Next ==
    \/ GetIntCall \/ GetRealCall \/ GetByteCall \/ GetCommonCall
    \/ RejectedCall \/ Consume

Spec == Init /\ [][Next]_vars

--------------------------------------------------------------------------
(* Properties of the calls                                                *)

CallOk == lastCall.status = "ok"
Rejected == lastCall.status = "rejected"

\* <= of two values, false when either is NaN.
Leq(x, y) == x # NaN /\ y # NaN /\ x <= y

\* The bounds as the same-type overload received them, smaller and larger.
LoB == Min2(lastCall.cfrom, lastCall.cto)
HiB == Max2(lastCall.cfrom, lastCall.cto)

SortedParams == lastCall.lo = LoB /\ lastCall.hi = HiB /\ Leq(LoB, HiB)
InInterval == Leq(LoB, lastCall.value) /\ Leq(lastCall.value, HiB)

C4_Original ==
    (CallOk /\ lastCall.key = "" /\ lastCall.from = lastCall.to)
        => (lastCall.value = lastCall.from /\ lastCall.value # NaN)

\* C4 amended: get(x, x) returns x for every integral and byte x and for
\* every finite floating-point x.
C4_EqualBounds ==
    (/\ CallOk /\ lastCall.key = "" /\ lastCall.from = lastCall.to
     /\ (lastCall.overload = "real" => IsFinite(lastCall.from)))
        => lastCall.value = lastCall.from

\* get(x, x) for the largest finite x of a floating-point type, after a
\* draw other than zero.
C4_Witness ==
    /\ CallOk /\ lastCall.key = "" /\ lastCall.overload = "real"
    /\ lastCall.from = lastCall.to
    /\ lastCall.from = Highest(lastCall.C)
    /\ lastCall.before # 0
    /\ lastCall.value = lastCall.from

\* What the recorded call is compared with: the same call with its two
\* bounds exchanged, started in the engine state the recorded call found.
Exchanged ==
    GetSame(lastCall.C, lastCall.cto, lastCall.cfrom, lastCall.before,
            skipsEqual)
SameAsExchanged ==
    \A o \in Exchanged :
        /\ o.lo = lastCall.lo /\ o.hi = lastCall.hi
        /\ o.value = lastCall.value
        /\ o.engine = engine

\* C5 as claimed: get(from, to) and get(to, from) build the distribution
\* with the same pair (min, max), return the same value from the same engine
\* state and leave the engine in the same state, for every pair of bounds.
C5_Original ==
    (CallOk /\ lastCall.key = "") => (SortedParams /\ SameAsExchanged)

\* C5 amended: the same, for every pair of bounds neither of which is a
\* floating-point NaN.
C5_SwapInvariant ==
    (/\ CallOk /\ lastCall.key = ""
     /\ lastCall.from # NaN /\ lastCall.to # NaN)
        => (SortedParams /\ SameAsExchanged)

\* An integral call with from > to whose result is not the lower bound.
C5_Witness ==
    /\ CallOk /\ lastCall.key = "" /\ lastCall.overload = "int"
    /\ lastCall.from > lastCall.to
    /\ lastCall.lo = lastCall.to /\ lastCall.hi = lastCall.from
    /\ lastCall.value # lastCall.lo
    /\ Exchanged # {}

\* C6: a call of the byte overload samples in short (signed char) or
\* unsigned short (unsigned char) between the two bounds, their values
\* unchanged by the widening, and returns a value of the byte type between
\* the smaller and the larger bound.
C6_ByteThroughShort ==
    (CallOk /\ lastCall.overload = "byte")
        => /\ lastCall.dist = "uniform_int"
           /\ lastCall.D = (IF lastCall.C = "signed char" THEN "short"
                            ELSE "unsigned short")
           /\ SortedParams
           /\ Lowest(lastCall.C) <= lastCall.value
           /\ lastCall.value <= Highest(lastCall.C)
           /\ InInterval

\* A signed char call with to < 0 < from and a result strictly between.
C6_Witness ==
    /\ CallOk /\ lastCall.overload = "byte" /\ lastCall.C = "signed char"
    /\ lastCall.D = "short"
    /\ lastCall.cto < 0 /\ lastCall.cfrom > 0
    /\ lastCall.value > lastCall.cto /\ lastCall.value < lastCall.cfrom

\* C8 as claimed: every call that runs advances the one shared engine, also
\* with from = to, and changes nothing else.
C8_Original ==
    CallOk => /\ engine = Advance(lastCall.before)
              /\ engine # lastCall.before
              /\ constructed /\ phase = "main"
              /\ \A t \in Threads : pc[t] = "idle" /\ ret[t] = 0

\* C8 amended: every call that runs advances the one shared engine, except
\* that a call whose integer distribution has equal bounds may leave it as
\* it was; nothing else changes.
C8_EngineAdvanced ==
    CallOk => /\ \/ /\ engine = Advance(lastCall.before)
                    /\ engine # lastCall.before
                 \/ /\ lastCall.dist = "uniform_int"
                    /\ lastCall.lo = lastCall.hi
                    /\ engine = lastCall.before
              /\ constructed /\ phase = "main"
              /\ \A t \in Threads : pc[t] = "idle" /\ ret[t] = 0

\* A real call with equal bounds: the engine has advanced all the same.
C8_Witness ==
    /\ CallOk /\ lastCall.dist = "uniform_real"
    /\ lastCall.lo = lastCall.hi
    /\ engine = Advance(lastCall.before)

\* The call named the key `common` and gave two supported number types.
KeyedSupported ==
    /\ lastCall.status # "none"
    /\ lastCall.key = "common"
    /\ IsSupportedNumber(lastCall.A)
    /\ IsSupportedNumber(lastCall.B)

MixedSign == IsSigned(lastCall.A) # IsSigned(lastCall.B)

\* C2 as claimed: the keyed overload accepts two different supported types
\* exactly when one is signed and the other unsigned.
C2_Original ==
    (KeyedSupported /\ lastCall.A # lastCall.B) => (CallOk <=> MixedSign)

\* C2 amended: the keyed overload accepts two supported types exactly when
\* both are signed or both are unsigned, and rejects every pair of one
\* signed and one unsigned type.
C2_SameSignAccepted == KeyedSupported => (CallOk <=> ~MixedSign)

\* get<common>(unsigned char, unsigned long) runs, in unsigned long.
C2_Witness ==
    /\ KeyedSupported /\ CallOk
    /\ lastCall.A = "unsigned char" /\ lastCall.B = "unsigned long"
    /\ lastCall.C = "unsigned long"

BoundsKept == lastCall.cfrom = lastCall.from /\ lastCall.cto = lastCall.to

\* C3 as claimed: a keyed call with one signed and one unsigned bound runs,
\* both bounds reach the common type with their values, and the result lies
\* between the smaller and the larger bound.
C3_Original ==
    (KeyedSupported /\ MixedSign) => (CallOk /\ BoundsKept /\ InInterval)

\* C3 amended: a keyed call with one signed and one unsigned bound is
\* rejected; in a keyed call of two integral or byte types that is
\* accepted, both bounds reach the common type with their values and the
\* result lies between the smaller and the larger bound.
C3_CommonKeepsBounds ==
    /\ (KeyedSupported /\ MixedSign) => Rejected
    /\ (/\ KeyedSupported /\ CallOk
        /\ ~IsUniformReal(lastCall.A) /\ ~IsUniformReal(lastCall.B))
           => (BoundsKept /\ SortedParams /\ InInterval)

\* get<common>(int, signed char) with to < 0 < from and a result strictly
\* between the two.
C3_Witness ==
    /\ KeyedSupported /\ CallOk
    /\ lastCall.A = "int" /\ lastCall.B = "signed char"
    /\ lastCall.from > 0 /\ lastCall.to < 0
    /\ BoundsKept
    /\ lastCall.value > lastCall.to /\ lastCall.value < lastCall.from

\* The three category predicates exclude one another.
CategoriesExclusive ==
    \A T \in ArgTypes :
        Cardinality({c \in {"int", "real", "byte"} :
                        \/ c = "int" /\ IsUniformInt(T)
                        \/ c = "real" /\ IsUniformReal(T)
                        \/ c = "byte" /\ IsByte(T)}) <= 1

Category(T) ==
    IF IsUniformInt(T) THEN "int"
    ELSE IF IsUniformReal(T) THEN "real"
    ELSE IF IsByte(T) THEN "byte" ELSE "none"

\* A same-type call on a supported type ran in the overload of its category,
\* the only one it could use.
OneOverload ==
    (/\ lastCall.status # "none" /\ lastCall.key = ""
     /\ lastCall.A = lastCall.B /\ lastCall.A \in SupportedTypes)
        => /\ CallOk
           /\ lastCall.overload = Category(lastCall.A)
           /\ Viable("", lastCall.A, lastCall.B) = {lastCall.overload}

Unsupported ==
    \/ lastCall.A \notin SupportedTypes
    \/ lastCall.B \notin SupportedTypes

--------------------------------------------------------------------------
(* Static initialisation: engine is a static data member with a dynamic   *)
(* initialiser, unordered with respect to the other static objects.       *)

InitStartup ==
    /\ engine = 0
    /\ skipsEqual \in BOOLEAN
    /\ constructed = FALSE
    /\ phase = "static_init"
    /\ lastCall = NoCall
    /\ pc = [t \in Threads |-> "idle"]
    /\ snapshot = [t \in Threads |-> 0]
    /\ ret = [t \in Threads |-> 0]

\* Engine basic_random_static<Engine>::engine( std::random_device{ }( ) ).
EngineInit ==
    /\ phase = "static_init"
    /\ ~constructed
    /\ \E seed \in EngineStates : engine' = seed
    /\ constructed' = TRUE
    /\ UNCHANGED <<skipsEqual, phase, lastCall, pc, snapshot, ret>>

\* What a call returns that reads the engine before its initialiser ran:
\* the engine holds no valid state, any value of the type may come out.
Unconstructed(A, from, to, e, skip) ==
    {[o EXCEPT !.value = v, !.engine = n] :
        o \in GetSame(A, from, to, e, skip),
        v \in AnyValue(A) \cup {from, to},
        n \in {e, Advance(e)}}

\* The constructor of another static object calls get(from, to).
StaticInitCall ==
    /\ phase = "static_init"
    /\ lastCall.status = "none"
    /\ \E from \in Sample("int"), to \in Sample("int") :
       \E o \in (IF constructed
                 THEN GetSame("int", from, to, engine, skipsEqual)
                 ELSE Unconstructed("int", from, to, engine, skipsEqual)) :
            /\ lastCall' = Call("", "int", "int", from, to, "int", from, to, o)
            /\ engine' = o.engine
    /\ UNCHANGED <<skipsEqual, constructed, phase, pc, snapshot, ret>>

\* Static initialisation is over, main starts.
EnterMain ==
    /\ phase = "static_init"
    /\ constructed
    /\ lastCall.status = "none"
    /\ phase' = "main"
    /\ UNCHANGED <<engine, skipsEqual, constructed, lastCall, pc, snapshot, ret>>

NextStartup ==
    EngineInit \/ StaticInitCall \/ EnterMain \/ GetIntCall \/ Consume

SpecStartup == InitStartup /\ [][NextStartup]_vars

\* C9 as claimed: no call of get reads or advances the engine before the
\* engine has been created and seeded, calls made during the initialisation
\* of other static objects included.
C9_Original == CallOk => lastCall.constructed

--------------------------------------------------------------------------
(* Two threads in get(1, 6): the engine's state is read, then written.    *)

CanEnterLocked(t) == \A u \in Threads \ {t} : pc[u] = "idle"

\* What a thread waits for before it touches the engine: nothing.
CanEnter(t) == TRUE

\* The engine call begins: the thread reads the engine's state.
ThreadEnter(t) ==
    /\ pc[t] = "idle"
    /\ CanEnter(t)
    /\ snapshot' = [snapshot EXCEPT ![t] = engine]
    /\ pc' = [pc EXCEPT ![t] = "inside"]
    /\ UNCHANGED <<engine, skipsEqual, constructed, phase, lastCall, ret>>

\* The engine call ends: the thread writes the state that follows the one
\* it read, and get returns the value drawn from the state it read.
ThreadLeave(t) ==
    /\ pc[t] = "inside"
    /\ \E o \in GetInt("int", 1, 6, snapshot[t], skipsEqual) :
          /\ engine' = o.engine
          /\ ret' = [ret EXCEPT ![t] = o.value]
    /\ pc' = [pc EXCEPT ![t] = "idle"]
    /\ UNCHANGED <<skipsEqual, constructed, phase, lastCall, snapshot>>

NextThreads == \E t \in Threads : ThreadEnter(t) \/ ThreadLeave(t)

SpecThreads == Init /\ [][NextThreads]_vars

\* C10: nothing keeps a thread out of the engine while another thread is
\* between its read and its write of the engine's state.
C10_NoSynchronisation ==
    \A t \in Threads : pc[t] = "idle" => ENABLED ThreadEnter(t)

\* Both threads are inside the engine at once and have read the same state:
\* each will return the same draw and one advance of the engine is lost.
C10_Witness ==
    /\ pc[1] = "inside" /\ pc[2] = "inside"
    /\ snapshot[1] = snapshot[2]

====
